---- MODULE Spec2Model ----
(***************************************************************************)
(* The external-grader queue (XQueueViewSet.get_submission / put_result    *)
(* over ExternalGraderDetail rows) and the ScoreSummary aggregation of     *)
(* edx-submissions.                                                        *)
(*                                                                         *)
(* Time is counted in minutes.  A request is a database transaction: a row *)
(* locked by select_for_update stays locked until the transaction ends,    *)
(* and what the transaction wrote becomes visible when it commits.         *)
(***************************************************************************)
EXTENDS Integers, Sequences, FiniteSets, TLC

\* ------------------------------------------------------------------ bounds
MaxTime == 6
MaxScores == 3
MaxCountedFailures == 5
MaxSubmissions == 5

\* ------------------------------------------------------- program constants
RECLAIM_TIMEOUT == 5
MAX_SCORE_UPDATE_RETRIES == 5

\* ------------------------------------------------------------- the universe
RecIds == {1, 2}
Workers == {"w1", "w2"}
Queues == {"q1", "q2"}
NoSuchSubmission == 99999
NoKey == ""
Keys == {NoKey, "k1", "k2"}
PointsReported == {-1, 1}
\* The bodies posted to put_result: well-formed, or malformed in one way.
\* not_object: request.data is not an object; missing_key: xqueue_header or
\* xqueue_body is missing; header_unparsable, body_unparsable: not JSON text;
\* body_not_object: the body is JSON but not an object; header_not_object: the
\* header is JSON but not an object; header_lacks_tag: submission_id or
\* submission_key is missing; id_not_integer: submission_id is not a number;
\* body_without_score: the body is an object with no "score".
Bodies ==
    {"ok", "not_object", "missing_key", "header_unparsable", "body_unparsable",
     "body_not_object", "header_not_object", "header_lacks_tag", "id_not_integer",
     "body_without_score"}
\* The bodies the protocol is exercised with.
PlainBodies == {"ok", "not_object"}
Statuses == {"pending", "pulled", "retry", "failed", "retired"}
TargetStatuses == Statuses \cup {"invalid_status"}

VARIABLES now, rec, tx, scores, summary, events, last, hist, submissions, session

vars == <<now, rec, tx, scores, summary, events, last, hist, submissions, session>>

\* ------------------------------------------------------ ExternalGraderDetail
\* The credential a record receives the first time it is pulled.
NewPullKey(r) == IF r = 1 THEN "k1" ELSE "k2"

NewRecord(q, pp) ==
    [queue_name |-> q, status |-> "pending", num_failures |-> 0,
     pullkey |-> NoKey, status_time |-> 0, grader_reply |-> <<>>,
     points_possible |-> pp]

\* VALID_TRANSITIONS with retired -> retry let through.
VALID_TRANSITIONS_retired_retry ==
    [pending |-> {"pulled"},
     pulled  |-> {"retired", "retry", "failed"},
     retry   |-> {"pulled"},
     failed  |-> {"pending"},
     retired |-> {"retry"}]

\* VALID_TRANSITIONS with pending -> failed let through.
VALID_TRANSITIONS_pending_failed ==
    [pending |-> {"pulled", "failed"},
     pulled  |-> {"retired", "retry", "failed"},
     retry   |-> {"pulled"},
     failed  |-> {"pending"},
     retired |-> {}]

VALID_TRANSITIONS ==
    [pending |-> {"pulled"},
     pulled  |-> {"retired", "retry", "failed"},
     retry   |-> {"pulled"},
     failed  |-> {"pending"},
     retired |-> {}]

\* update_status raises ValueError exactly when this is FALSE.
can_transition_to(e, target) == target \in VALID_TRANSITIONS[e.status]

\* update_status that counts a failure on retry only.
update_status_failed_not_counted(r, e, target, t) ==
    [e EXCEPT !.status = target,
              !.status_time = t,
              !.num_failures = IF target = "retry" THEN @ + 1 ELSE @,
              !.pullkey = IF target = "pulled" /\ @ = NoKey THEN NewPullKey(r) ELSE @]

\* update_status on a legal transition: the row as saved.
update_status(r, e, target, t) ==
    [e EXCEPT !.status = target,
              !.status_time = t,
              !.num_failures = IF target \in {"retry", "failed"} THEN @ + 1 ELSE @,
              !.pullkey = IF target = "pulled" /\ @ = NoKey THEN NewPullKey(r) ELSE @]

\* ------------------------------------------------------- Score, ScoreSummary
\* Submission r belongs to ExternalGraderDetail r; both submissions are of
\* student item 1.  Student item 2 is scored without a submission.
Items == {1, 2}
Subs == RecIds
NoSub == 0
ItemOf(sub) == 1
PointPairs == {<<0, 0>>, <<1, 0>>, <<0, 2>>, <<1, 2>>, <<1, 1>>, <<2, 2>>}
NoSummary == [highest |-> 0, latest |-> 0]

\* A Submission row; the rows of submissions are in creation order, the
\* index of a row is its id.
NewSubmission(item, attempt, at) ==
    [student_item |-> item, attempt_number |-> attempt, submitted_at |-> at,
     status |-> "A"]
\* _get_submission_model(uuid) finds the submission: it is not soft-deleted.
SubmissionExists(sub) ==
    sub \in 1..Len(submissions) /\ submissions[sub].status # "D"
\* The values submitted_at is given.
SubmittedAts == {0, 1, 2}
\* attempt_number=None
NoAttempt == 0
\* The points of the calls that overlap.
RacePoints == {<<1, 0>>, <<1, 2>>, <<2, 2>>}

NewScore(item, sub, pe, pp, reset) ==
    [student_item |-> item, submission |-> sub, points_earned |-> pe,
     points_possible |-> pp, reset |-> reset]

\* Score.to_float() is None
to_float_is_none(s) == s.points_possible = 0

\* a.to_float() > b.to_float(), both defined: the quotients of two small
\* integers, compared exactly.
to_float_greater(a, b) ==
    a.points_earned * b.points_possible > b.points_earned * a.points_possible

\* update_score_summary with latest moved only when highest moves.
update_score_summary_latest_with_highest(sc, sm, idx) ==
    LET score == sc[idx]
        item  == score.student_item
        cur   == sm[item]
    IN  IF cur = NoSummary
        THEN [sm EXCEPT ![item] = [highest |-> idx, latest |-> idx]]
        ELSE LET high == sc[cur.highest]
                 becomesHighest ==
                     \/ score.reset
                     \/ to_float_is_none(high) /\ ~to_float_is_none(score)
                     \/ /\ ~to_float_is_none(score)
                        /\ ~to_float_is_none(high)
                        /\ to_float_greater(score, high)
             IN  IF becomesHighest
                 THEN [sm EXCEPT ![item] = [highest |-> idx, latest |-> idx]]
                 ELSE sm

\* update_score_summary without the reset override.
update_score_summary_no_reset_override(sc, sm, idx) ==
    LET score == sc[idx]
        item  == score.student_item
        cur   == sm[item]
    IN  IF cur = NoSummary
        THEN [sm EXCEPT ![item] = [highest |-> idx, latest |-> idx]]
        ELSE LET high == sc[cur.highest]
                 newHigh ==
                     IF to_float_is_none(high) /\ ~to_float_is_none(score) THEN idx
                     ELSE IF /\ ~to_float_is_none(score)
                             /\ ~to_float_is_none(high)
                             /\ to_float_greater(score, high) THEN idx
                     ELSE cur.highest
             IN  [sm EXCEPT ![item] = [highest |-> newHigh, latest |-> idx]]

\* update_score_summary without the branch for a highest of undefined ratio.
update_score_summary_none_kept(sc, sm, idx) ==
    LET score == sc[idx]
        item  == score.student_item
        cur   == sm[item]
    IN  IF cur = NoSummary
        THEN [sm EXCEPT ![item] = [highest |-> idx, latest |-> idx]]
        ELSE LET high == sc[cur.highest]
                 newHigh ==
                     IF score.reset THEN idx
                     ELSE IF /\ ~to_float_is_none(score)
                             /\ ~to_float_is_none(high)
                             /\ to_float_greater(score, high) THEN idx
                     ELSE cur.highest
             IN  [sm EXCEPT ![item] = [highest |-> newHigh, latest |-> idx]]

\* update_score_summary comparing points_earned in place of the ratios.
update_score_summary_by_points_earned(sc, sm, idx) ==
    LET score == sc[idx]
        item  == score.student_item
        cur   == sm[item]
    IN  IF cur = NoSummary
        THEN [sm EXCEPT ![item] = [highest |-> idx, latest |-> idx]]
        ELSE LET high == sc[cur.highest]
                 newHigh ==
                     IF score.reset THEN idx
                     ELSE IF to_float_is_none(high) /\ ~to_float_is_none(score) THEN idx
                     ELSE IF /\ ~to_float_is_none(score)
                             /\ ~to_float_is_none(high)
                             /\ score.points_earned > high.points_earned THEN idx
                     ELSE cur.highest
             IN  [sm EXCEPT ![item] = [highest |-> newHigh, latest |-> idx]]

\* update_score_summary with >= in place of > between two defined ratios.
update_score_summary_ties_replace(sc, sm, idx) ==
    LET score == sc[idx]
        item  == score.student_item
        cur   == sm[item]
    IN  IF cur = NoSummary
        THEN [sm EXCEPT ![item] = [highest |-> idx, latest |-> idx]]
        ELSE LET high == sc[cur.highest]
                 newHigh ==
                     IF score.reset THEN idx
                     ELSE IF to_float_is_none(high) /\ ~to_float_is_none(score) THEN idx
                     ELSE IF /\ ~to_float_is_none(score)
                             /\ ~to_float_is_none(high)
                             /\ ~to_float_greater(high, score) THEN idx
                     ELSE cur.highest
             IN  [sm EXCEPT ![item] = [highest |-> newHigh, latest |-> idx]]

\* update_score_summary that makes every new score the highest.
update_score_summary_newest_highest(sc, sm, idx) ==
    LET score == sc[idx]
        item  == score.student_item
    IN  [sm EXCEPT ![item] = [highest |-> idx, latest |-> idx]]

\* ScoreSummary.update_score_summary, the post_save receiver, for the score
\* just saved as row idx of sc.
update_score_summary(sc, sm, idx) ==
    LET score == sc[idx]
        item  == score.student_item
        cur   == sm[item]
    IN  IF cur = NoSummary
        THEN [sm EXCEPT ![item] = [highest |-> idx, latest |-> idx]]
        ELSE LET high == sc[cur.highest]
                 newHigh ==
                     IF score.reset THEN idx
                     ELSE IF to_float_is_none(high) /\ ~to_float_is_none(score) THEN idx
                     ELSE IF /\ ~to_float_is_none(score)
                             /\ ~to_float_is_none(high)
                             /\ to_float_greater(score, high) THEN idx
                     ELSE cur.highest
             IN  [sm EXCEPT ![item] = [highest |-> newHigh, latest |-> idx]]

\* ScoreSerializer.is_valid(): both points are non-negative integers.
score_is_valid(pe, pp) == pe >= 0 /\ pp >= 0

\* Score.objects.create / score.save(): the row and the receiver's update.
SaveScore(sc, sm, s) ==
    LET sc2 == Append(sc, s)
    IN  [scores |-> sc2, summary |-> update_score_summary(sc2, sm, Len(sc2))]

\* ------------------------------------------------------------------- helpers
Idle == [op |-> "idle"]
\* ExternalGraderDetail.objects: the rows that exist.
Recs == DOMAIN rec
\* The rows a transaction in flight holds locked.
LockedRecs == {tx[w].r : w \in {v \in Workers : tx[v].op # "idle"}}
\* select_for_update(nowait=True) that never finds the row locked.
Locked_never(r) == FALSE

\* select_for_update(nowait=True) on row r raises DatabaseError.
Locked(r) == r \in LockedRecs

\* The session of the request: of no user, of a user in the group xqueue, of
\* a user outside it.
Sessions == {"none", "member", "outsider"}
\* What login is called with: a field missing, a wrong password, the
\* credentials of a user in the group, the credentials of a user outside it.
Credentials == {"missing", "wrong", "member", "outsider"}

\* A permission that asks for a logged-in user only.
has_permission_authenticated(who) == who # "none"

\* IsXQueueUser.has_permission: request.user.groups.filter(name='xqueue').exists()
has_permission(who) == who = "member"

\* XQueueViewSet.get_permissions: login is public, every other action asks
\* for IsXQueueUser.
get_permissions(action, who) == action = "login" \/ has_permission(who)

\* What the last step answered: the request (op, the worker w, and the queue q, the
\* record r, the key, the body, the rows sel the admin selected), the HTTP status code
\* and the return_code rc, how the handler ended (outcome), and whether the
\* database failed under it (fault).
Reply(op, code, rc, r, key) ==
    [op |-> op, code |-> code, rc |-> rc, r |-> r, key |-> key,
     q |-> "", outcome |-> "", sel |-> {}, fault |-> FALSE, body |-> "", w |-> ""]
\* A step that answers no request.
NoReply == Reply("none", 0, 0, 0, NoKey)
\* The answer to a request the permission turns away, before the view runs.
Forbidden(w, op) ==
    [Reply(op, 403, 1, 0, NoKey) EXCEPT !.outcome = "permission_denied", !.w = w]

TypeOK ==
    /\ now \in 0..MaxTime
    /\ \A r \in Recs : rec[r].status \in Statuses
    /\ \A w \in Workers : tx[w].op \in {"idle", "get_submission", "put_result", "set_score"}

\* The state after the listed submissions were created for external grading.
\* hist is the history: per record, the number of put_result calls that ended
\* in the except block and committed, and the time get_submission last handed
\* the record out with no result accepted since (-1: no such hand-out), and
\* whether it was ever handed out while pulled already, and whether the row
\* was inserted right after its queue was answered "Queue is empty".
InitAs(ids, who) ==
    /\ now = 0
    /\ \E q \in Queues : rec = [r \in ids |-> NewRecord(IF r = 1 THEN "q1" ELSE q, 2)]
    /\ tx = [w \in Workers |-> Idle]
    /\ scores = <<>>
    /\ summary = [i \in Items |-> NoSummary]
    /\ events = [r \in ids |-> 0]
    /\ last = NoReply
    /\ hist = [r \in ids |-> [failures |-> 0, handed |-> -1, reclaimed |-> FALSE,
                               after_empty |-> FALSE]]
    /\ submissions = [u \in Subs |-> NewSubmission(ItemOf(u), u, 0)]
    /\ session = [w \in Workers |-> who]

\* The workers are logged in as users of the group xqueue.
InitWith(ids) == InitAs(ids, "member")

Init == InitWith({1})

\* ------------------------------------------------------------------- clock
Tick ==
    /\ now < MaxTime
    /\ now' = now + 1
    /\ last' = NoReply
    /\ UNCHANGED <<rec, tx, scores, summary, events, hist, submissions, session>>

\* ---------------------------------------------------------- get_submission
\* The filter without the threshold on pulled rows.
Eligible_any_pulled(q, threshold) ==
    {r \in Recs :
        /\ rec[r].queue_name = q
        /\ rec[r].status \in {"pending", "retry", "pulled"}}

\* The filter without the pending rows.
Eligible_not_pending(q, threshold) ==
    {r \in Recs :
        /\ rec[r].queue_name = q
        /\ \/ rec[r].status = "retry"
           \/ rec[r].status = "pulled" /\ rec[r].status_time < threshold}

\* The filter of the claim query, on the committed rows.
Eligible(q, threshold) ==
    {r \in Recs :
        /\ rec[r].queue_name = q
        /\ \/ rec[r].status = "pending"
           \/ rec[r].status = "retry"
           \/ rec[r].status = "pulled" /\ rec[r].status_time < threshold}

\* A claim query that gives up when one of its rows is locked.
SkipLocked_give_up(rows) == IF rows \cap LockedRecs # {} THEN {} ELSE rows

\* select_for_update() without skip_locked, the lock not taken into account.
SkipLocked_not(rows) == rows

\* select_for_update(skip_locked=True): the rows another transaction holds
\* locked are left out of the result.
SkipLocked(rows) == rows \ LockedRecs

\* first() without the order_by: any of the rows.
FirstByStatusTime_unordered(cands) == cands

\* order_by('status_time').first(): a row with the least status_time.
FirstByStatusTime(cands) ==
    {r \in cands : \A o \in cands : rec[r].status_time <= rec[o].status_time}

\* The request up to the claim query: the queue_name check, the threshold,
\* and the query, which locks one eligible row or finds the queue empty.
GetSubmissionSelect(w, q) ==
    /\ tx[w].op = "idle"
    /\ IF ~get_permissions("get_submission", session[w])
       THEN /\ last' = Forbidden(w, "get_submission")
            /\ UNCHANGED tx
       ELSE IF q = ""
       THEN /\ last' = [Reply("get_submission", 400, 1, 0, NoKey) EXCEPT !.w = w]
            /\ UNCHANGED tx
       ELSE LET cands == SkipLocked(Eligible(q, now - RECLAIM_TIMEOUT))
            IN  IF cands = {}
                THEN /\ last' = [Reply("get_submission", 200, 1, 0, NoKey)
                                    EXCEPT !.q = q, !.w = w]
                     /\ UNCHANGED tx
                ELSE \E r \in FirstByStatusTime(cands) :
                     /\ tx' = [tx EXCEPT ![w] = [op |-> "get_submission", r |-> r, q |-> q]]
                     /\ last' = NoReply
    /\ UNCHANGED <<now, rec, scores, summary, events, hist, submissions, session>>

\* The selected row with a pullkey of its own on every hand-out.
Pull_rotate(r, e, t) ==
    IF e.status # "pulled" THEN update_status(r, e, "pulled", t)
    ELSE [e EXCEPT !.pullkey = IF @ = "k1" THEN "k2" ELSE "k1"]

\* if external_grader.status != 'pulled': external_grader.update_status("pulled")
Pull(r, e, t) ==
    IF e.status # "pulled" THEN update_status(r, e, "pulled", t) ELSE e

\* The rest of the request on the locked row: the transition to pulled unless
\* the row is pulled already, the payload, the commit.  rejected: the call
\* update_status("pulled") raises ValueError although the table allows the
\* transition; the except clause answers as for a transition the table forbids.
\* unserializable: building the payload raises TypeError or ValueError; the
\* view returns the 500 response, so @transaction.atomic commits what
\* update_status saved.
GetSubmissionCommit(w, rejected, unserializable) ==
    /\ tx[w].op = "get_submission"
    /\ LET r == tx[w].r
           e == rec[r]
       IN  IF e.status # "pulled" /\ (rejected \/ ~can_transition_to(e, "pulled"))
           THEN /\ last' = [Reply("get_submission", 409, 1, r, NoKey)
                               EXCEPT !.q = tx[w].q, !.outcome = "transition_rejected",
                                      !.w = w]
                /\ UNCHANGED <<rec, hist>>
           ELSE LET e2 == Pull(r, e, now)
                IN  IF unserializable
                    THEN /\ rec' = [rec EXCEPT ![r] = e2]
                         /\ last' = [Reply("get_submission", 500, 1, r, NoKey)
                                        EXCEPT !.q = tx[w].q, !.w = w,
                                               !.outcome = "unserializable"]
                         /\ UNCHANGED hist
                    ELSE /\ rec' = [rec EXCEPT ![r] = e2]
                         /\ last' = [Reply("get_submission", 200, 0, r, e2.pullkey)
                                        EXCEPT !.q = tx[w].q, !.w = w]
                         /\ hist' = [hist EXCEPT ![r].handed = now,
                                                  ![r].reclaimed = @ \/ e.status = "pulled"]
    /\ tx' = [tx EXCEPT ![w] = Idle]
    /\ UNCHANGED <<now, scores, summary, events, submissions, session>>

\* ------------------------------------------------------------- put_result
\* The receiver of the request has not read the summary yet.
Unread == [highest |-> -1, latest |-> -1]

\* validate_grader_reply(request.data): "fail" is the fail tuple, "valid" the
\* tuple of a reply taken as valid, "raised" an exception none of its except
\* clauses catches: score.get on a body that is not an object (AttributeError),
\* int() of a submission_id that is not a number (ValueError).  The tests run
\* in the order of the code.
validate_grader_reply(body) ==
    IF body = "not_object" THEN "fail"
    ELSE IF body = "missing_key" THEN "fail"
    ELSE IF body = "header_unparsable" THEN "fail"
    ELSE IF body = "body_unparsable" THEN "fail"
    ELSE IF body = "body_not_object" THEN "raised"
    ELSE IF body = "header_not_object" THEN "fail"
    ELSE IF body = "header_lacks_tag" THEN "fail"
    ELSE IF body = "id_not_integer" THEN "raised"
    ELSE "valid"

\* points_earned = score.get("score"): None, which ScoreSerializer rejects as
\* it rejects the negative points, when the body has no "score".
PointsEarned(body, pe) == IF body = "body_without_score" THEN -1 ELSE pe

\* validate_grader_reply, then the select_for_update(nowait=True) lookup.
PutResultBegin(w, body, sid, key, pe) ==
    /\ tx[w].op = "idle"
    /\ IF ~get_permissions("put_result", session[w])
       THEN /\ last' = Forbidden(w, "put_result")
            /\ UNCHANGED tx
       ELSE IF validate_grader_reply(body) = "raised"
       THEN /\ last' = [Reply("put_result", 500, 1, 0, NoKey)
                           EXCEPT !.outcome = "unhandled", !.body = body, !.w = w]
            /\ UNCHANGED tx
       ELSE IF validate_grader_reply(body) = "fail"
       THEN /\ last' = [Reply("put_result", 400, 1, 0, NoKey)
                           EXCEPT !.body = body, !.w = w]
            /\ UNCHANGED tx
       ELSE IF sid \notin Recs
       THEN /\ last' = [Reply("put_result", 404, 1, sid, key)
                           EXCEPT !.body = body, !.w = w]
            /\ UNCHANGED tx
       ELSE IF Locked(sid)
       THEN /\ last' = [Reply("put_result", 409, 1, sid, key)
                           EXCEPT !.body = body, !.w = w]
            /\ UNCHANGED tx
       ELSE /\ tx' = [tx EXCEPT ![w] = [op |-> "put_result", r |-> sid,
                                        key |-> key, pe |-> PointsEarned(body, pe),
                                        body |-> body, seen |-> Unread]]
            /\ last' = NoReply
    /\ UNCHANGED <<now, rec, scores, summary, events, hist, submissions, session>>

\* The pullkey check that turns away the key of the record.
KeyRejected_matching(e, key) == e.pullkey = NoKey \/ key = e.pullkey

\* The pullkey check with "and" in place of "or".
KeyRejected_and(e, key) == e.pullkey = NoKey /\ key # e.pullkey

\* not external_grader.pullkey or submission_key != external_grader.pullkey
KeyRejected(e, key) == e.pullkey = NoKey \/ key # e.pullkey

\* set_score inside put_result, given the summary row its receiver read
\* (seen): as in SetScoreFinish, a first score that finds at creation that
\* another one has created the summary is rolled back and passed over, and a
\* summary that was read is saved from the copy read.
SetScoreInRequest(r, e, pe, seen) ==
    LET item == ItemOf(r)
        sc2  == Append(scores, NewScore(item, r, pe, e.points_possible, FALSE))
    IN  IF seen = NoSummary /\ summary[item] # NoSummary
        THEN [scores |-> scores, summary |-> summary]
        ELSE [scores |-> sc2,
              summary |-> [summary EXCEPT ![item] =
                              update_score_summary(sc2, [summary EXCEPT ![item] = seen],
                                                   Len(sc2))[item]]]

\* The try block without the save of grader_reply.
TryBlock_reply_not_saved(r, e, pe, t, seen) ==
    IF ~score_is_valid(pe, e.points_possible)
    THEN [raised |-> TRUE, scores |-> scores, summary |-> summary, e |-> e,
          emitted |-> FALSE]
    ELSE LET saved == SetScoreInRequest(r, e, pe, seen)
         IN  IF can_transition_to(e, "retired")
             THEN [raised |-> FALSE, scores |-> saved.scores, summary |-> saved.summary,
                   e |-> update_status(r, e, "retired", t), emitted |-> TRUE]
             ELSE [raised |-> TRUE, scores |-> saved.scores, summary |-> saved.summary,
                   e |-> e, emitted |-> FALSE]

\* The try block on the locked row e: set_score, the grader_reply, the
\* transition to retired, the event.  What it wrote, and whether it raised.
TryBlock(r, e, pe, t, seen) ==
    IF ~score_is_valid(pe, e.points_possible)
    THEN [raised |-> TRUE, scores |-> scores, summary |-> summary, e |-> e,
          emitted |-> FALSE]
    ELSE LET saved == SetScoreInRequest(r, e, pe, seen)
             e1 == [e EXCEPT !.grader_reply = <<pe>>]
         IN  IF can_transition_to(e1, "retired")
             THEN [raised |-> FALSE, scores |-> saved.scores, summary |-> saved.summary,
                   e |-> update_status(r, e1, "retired", t), emitted |-> TRUE]
             ELSE [raised |-> TRUE, scores |-> saved.scores, summary |-> saved.summary,
                   e |-> e1, emitted |-> FALSE]

\* FailureTarget with > in place of >=.
FailureTarget_gt(e) ==
    IF e.num_failures + 1 > MAX_SCORE_UPDATE_RETRIES THEN "failed" ELSE "retry"

\* The status the except block asks for.
FailureTarget(e) ==
    IF e.num_failures + 1 >= MAX_SCORE_UPDATE_RETRIES THEN "failed" ELSE "retry"

\* The except block on the row as the try block left it.
ExceptBlock(r, e, t) ==
    IF can_transition_to(e, FailureTarget(e))
    THEN [raised |-> FALSE, e |-> update_status(r, e, FailureTarget(e), t)]
    ELSE [raised |-> TRUE, e |-> e]

\* The request without a transaction around it: what was written stays.
Atomic_autocommit(before, after, escaped) == after

\* @transaction.atomic: an exception that leaves the view rolls back what the
\* request wrote.
Atomic(before, after, escaped) == IF escaped THEN before ELSE after

\* The receiver of the Score that set_score saves for the request reads the
\* summary of the student item; the rest of the request follows later.
PutResultReceiverRead(w) ==
    /\ tx[w].op = "put_result"
    /\ tx[w].seen = Unread
    /\ ~KeyRejected(rec[tx[w].r], tx[w].key)
    /\ score_is_valid(tx[w].pe, rec[tx[w].r].points_possible)
    /\ tx' = [tx EXCEPT ![w].seen = summary[ItemOf(tx[w].r)]]
    /\ last' = NoReply
    /\ UNCHANGED <<now, rec, scores, summary, events, hist, submissions, session>>

\* The rest of the request on the locked row: the pullkey check, the try and
\* except blocks, the commit or the rollback.  A receiver that has not read
\* the summary reads it now.
PutResultFinish(w) ==
    /\ tx[w].op = "put_result"
    /\ LET r   == tx[w].r
           e   == rec[r]
           key == tx[w].key
           seen == IF tx[w].seen = Unread THEN summary[ItemOf(r)] ELSE tx[w].seen
           try == TryBlock(r, e, tx[w].pe, now, seen)
           exc == ExceptBlock(r, try.e, now)
           escaped == try.raised /\ exc.raised
           before == [e |-> e, scores |-> scores, summary |-> summary,
                      events |-> events[r]]
           after  == [e |-> IF try.raised THEN exc.e ELSE try.e,
                      scores |-> try.scores, summary |-> try.summary,
                      events |-> IF try.emitted THEN events[r] + 1 ELSE events[r]]
           db == Atomic(before, after, escaped)
       IN  IF KeyRejected(e, key)
           THEN /\ last' = [Reply("put_result", 403, 1, r, key)
                               EXCEPT !.outcome = "rejected", !.body = tx[w].body,
                                      !.w = w]
                /\ UNCHANGED <<rec, scores, summary, events, hist>>
           ELSE /\ rec' = [rec EXCEPT ![r] = db.e]
                /\ scores' = db.scores
                /\ summary' = db.summary
                /\ events' = [events EXCEPT ![r] = db.events]
                /\ hist' = IF escaped THEN hist
                           ELSE [hist EXCEPT ![r] =
                                    [@ EXCEPT !.failures = IF try.raised THEN @ + 1 ELSE @,
                                              !.handed = -1]]
                /\ last' = [Reply("put_result", IF escaped THEN 500 ELSE 200,
                                  IF escaped THEN 1 ELSE 0, r, key)
                               EXCEPT !.outcome = IF escaped THEN "escaped"
                                                  ELSE IF try.raised THEN "failure_handled"
                                                  ELSE "scored",
                                      !.body = tx[w].body, !.w = w]
    /\ tx' = [tx EXCEPT ![w] = Idle]
    /\ UNCHANGED <<now, submissions, session>>

\* ------------------------------------------------- login, logout, status
\* login: 400 when a field is missing, 401 when authenticate() finds no user,
\* else the session is of the user.
Login(w, cred) ==
    /\ tx[w].op = "idle"
    /\ IF cred = "missing"
       THEN /\ last' = [Reply("login", 400, 1, 0, NoKey) EXCEPT !.w = w]
            /\ UNCHANGED session
       ELSE IF cred = "wrong"
       THEN /\ last' = [Reply("login", 401, 1, 0, NoKey) EXCEPT !.w = w]
            /\ UNCHANGED session
       ELSE /\ session' = [session EXCEPT ![w] = cred]
            /\ last' = [Reply("login", 200, 0, 0, NoKey) EXCEPT !.w = w]
    /\ UNCHANGED <<now, rec, tx, scores, summary, events, hist, submissions>>

\* logout: the session is ended.
Logout(w) ==
    /\ tx[w].op = "idle"
    /\ IF ~get_permissions("logout", session[w])
       THEN /\ last' = Forbidden(w, "logout")
            /\ UNCHANGED session
       ELSE /\ session' = [session EXCEPT ![w] = "none"]
            /\ last' = [Reply("logout", 200, 0, 0, NoKey) EXCEPT !.w = w]
    /\ UNCHANGED <<now, rec, tx, scores, summary, events, hist, submissions>>

\* status: "OK".
Status(w) ==
    /\ tx[w].op = "idle"
    /\ last' = IF ~get_permissions("status", session[w])
               THEN Forbidden(w, "status")
               ELSE [Reply("status", 200, 0, 0, NoKey) EXCEPT !.w = w]
    /\ UNCHANGED <<now, rec, tx, scores, summary, events, hist, submissions, session>>

\* ------------------------------------------------------------------- admin
\* The admin action without the filter on status = failed.
ResetFailedToPending_unfiltered(sel) ==
    /\ sel # {}
    /\ \A r \in sel : ~Locked(r) /\ rec[r].num_failures <= MaxCountedFailures
    /\ rec' = [r \in Recs |->
                  IF r \in sel
                  THEN [rec[r] EXCEPT !.status = "pending", !.status_time = now]
                  ELSE rec[r]]
    /\ last' = [Reply("reset_failed_to_pending", 0, 0, 0, NoKey) EXCEPT !.sel = sel]
    /\ UNCHANGED <<now, tx, scores, summary, events, hist, submissions, session>>

\* ExternalGraderDetailAdmin.reset_failed_to_pending on the selected rows.
ResetFailedToPending(sel) ==
    /\ sel # {}
    /\ \A r \in sel : rec[r].status = "failed" =>
            ~Locked(r) /\ rec[r].num_failures <= MaxCountedFailures
    /\ rec' = [r \in Recs |->
                  IF r \in sel /\ rec[r].status = "failed" /\ can_transition_to(rec[r], "pending")
                  THEN update_status(r, rec[r], "pending", now)
                  ELSE rec[r]]
    /\ last' = [Reply("reset_failed_to_pending", 0, 0, 0, NoKey) EXCEPT !.sel = sel]
    /\ UNCHANGED <<now, tx, scores, summary, events, hist, submissions, session>>

\* --------------------------------------------------- update_status, called
\* external_grader.update_status(target) on a row no request holds.
UpdateStatusCall(r, target) ==
    /\ ~Locked(r)
    /\ rec[r].num_failures <= MaxCountedFailures
    /\ IF target \in Statuses /\ can_transition_to(rec[r], target)
       THEN /\ rec' = [rec EXCEPT ![r] = update_status(r, rec[r], target, now)]
            /\ last' = [Reply("update_status", 0, 0, r, NoKey) EXCEPT !.outcome = target]
       ELSE /\ last' = [Reply("update_status", 0, 1, r, NoKey) EXCEPT !.outcome = target]
            /\ UNCHANGED rec
    /\ UNCHANGED <<now, tx, scores, summary, events, hist, submissions, session>>

\* ------------------------------------------------------- record creation
\* ExternalGraderDetail.objects.create(submission=..., queue_name=q): a new
\* pending row, stamped with the current time.
CreateRecord(r, q) ==
    /\ r \notin Recs
    /\ rec' = [x \in Recs \cup {r} |->
                  IF x = r THEN [NewRecord(q, 2) EXCEPT !.status_time = now] ELSE rec[x]]
    /\ events' = [x \in Recs \cup {r} |-> IF x = r THEN 0 ELSE events[x]]
    /\ hist' = [x \in Recs \cup {r} |->
                   IF x = r
                   THEN [failures |-> 0, handed |-> -1, reclaimed |-> FALSE,
                         after_empty |-> /\ last.op = "get_submission" /\ last.q = q
                                         /\ last.code = 200 /\ last.rc = 1]
                   ELSE hist[x]]
    /\ last' = NoReply
    /\ UNCHANGED <<now, tx, scores, summary, submissions, session>>

\* --------------------------------------------------------------- score API
\* api.set_score(submission_uuid, points_earned, points_possible), called
\* on its own.
SetScore(sub, pe, pp) ==
    /\ Len(scores) < MaxScores
    /\ SubmissionExists(sub)
    /\ score_is_valid(pe, pp)
    /\ LET saved == SaveScore(scores, summary, NewScore(ItemOf(sub), sub, pe, pp, FALSE))
       IN  scores' = saved.scores /\ summary' = saved.summary
    /\ last' = NoReply
    /\ UNCHANGED <<now, rec, tx, events, hist, submissions, session>>

\* api.reset_score: Score.create_reset_score(student_item).
ResetScore(item) ==
    /\ Len(scores) < MaxScores
    /\ LET saved == SaveScore(scores, summary, NewScore(item, NoSub, 0, 0, TRUE))
       IN  scores' = saved.scores /\ summary' = saved.summary
    /\ last' = NoReply
    /\ UNCHANGED <<now, rec, tx, events, hist, submissions, session>>

\* Score.objects.create(student_item=item, points_earned=pe, points_possible=pp)
CreateScore(item, pe, pp) ==
    /\ Len(scores) < MaxScores
    /\ LET saved == SaveScore(scores, summary, NewScore(item, NoSub, pe, pp, FALSE))
       IN  scores' = saved.scores /\ summary' = saved.summary
    /\ last' = NoReply
    /\ UNCHANGED <<now, rec, tx, events, hist, submissions, session>>

\* ------------------------------------------------------- create_submission
\* Submission.objects.filter(student_item=item): the rows that are not
\* soft-deleted.
SubmissionsOf(item) ==
    {k \in 1..Len(submissions) :
        submissions[k].student_item = item /\ submissions[k].status # "D"}

\* .first() under Meta.ordering = ["-submitted_at", "-id"]
FirstSubmission(S) ==
    CHOOSE k \in S : \A j \in S :
        \/ submissions[j].submitted_at < submissions[k].submitted_at
        \/ submissions[j].submitted_at = submissions[k].submitted_at /\ j <= k

\* api.create_submission(student_item_dict, answer, submitted_at, attempt_number)
CreateSubmission(item, at, attempt) ==
    /\ Len(submissions) < MaxSubmissions
    /\ LET S == SubmissionsOf(item)
           n == IF attempt # NoAttempt THEN attempt
                ELSE IF S = {} THEN 1
                ELSE submissions[FirstSubmission(S)].attempt_number + 1
       IN  submissions' = Append(submissions, NewSubmission(item, n, at))
    /\ last' = NoReply
    /\ UNCHANGED <<now, rec, tx, scores, summary, events, hist, session>>

\* api.reset_score(student_id, course_id, item_id, clear_state=True): the
\* reset score, and every submission of the item soft-deleted.
ResetScoreClearState(item) ==
    /\ Len(scores) < MaxScores
    /\ LET saved == SaveScore(scores, summary, NewScore(item, NoSub, 0, 0, TRUE))
       IN  scores' = saved.scores /\ summary' = saved.summary
    /\ submissions' = [k \in 1..Len(submissions) |->
                          IF k \in SubmissionsOf(item)
                          THEN [submissions[k] EXCEPT !.status = "D"]
                          ELSE submissions[k]]
    /\ last' = NoReply
    /\ UNCHANGED <<now, rec, tx, events, hist, session>>

\* ------------------------------------------------- set_score, overlapping
\* The set_score calls in flight.
InFlightScores == {w \in Workers : tx[w].op = "set_score"}

\* set_score up to the receiver's lookup of the ScoreSummary: the score is
\* validated and inserted, and the receiver reads the summary row (seen).
SetScoreBegin(w, sub, pe, pp) ==
    /\ tx[w] = Idle
    /\ Len(scores) + Cardinality(InFlightScores) < MaxScores
    /\ SubmissionExists(sub)
    /\ score_is_valid(pe, pp)
    /\ tx' = [tx EXCEPT ![w] = [op |-> "set_score", r |-> 0, sub |-> sub,
                                pe |-> pe, pp |-> pp, seen |-> summary[ItemOf(sub)]]]
    /\ last' = NoReply
    /\ UNCHANGED <<now, rec, scores, summary, events, hist, submissions, session>>

\* set_score that lets the IntegrityError of the second creator through.
SetScoreOutcome_integrity_raised(seen, cur, dberr) ==
    IF seen = NoSummary
    THEN IF dberr THEN "raised"
         ELSE IF cur # NoSummary THEN "raised"
         ELSE "created"
    ELSE IF dberr THEN "error_logged" ELSE "updated"

\* How the call ends, given the summary row the receiver read (seen), the row
\* there is now (cur) and whether the database fails under the receiver
\* (dberr).  No row seen: ScoreSummary.objects.create runs in the handler of
\* DoesNotExist, so what it raises leaves the receiver and the atomic block,
\* and set_score passes over an IntegrityError only.  A row seen: a
\* DatabaseError of save() is logged by the receiver.
SetScoreOutcome(seen, cur, dberr) ==
    IF seen = NoSummary
    THEN IF dberr THEN "raised"
         ELSE IF cur # NoSummary THEN "swallowed"
         ELSE "created"
    ELSE IF dberr THEN "error_logged" ELSE "updated"

\* The rest of set_score: the summary is created or saved, the atomic block
\* commits or rolls back, the exception is passed over or leaves the call.
SetScoreFinish(w, dberr) ==
    /\ tx[w].op = "set_score"
    /\ LET item == ItemOf(tx[w].sub)
           out  == SetScoreOutcome(tx[w].seen, summary[item], dberr)
           sc2  == Append(scores, NewScore(item, tx[w].sub, tx[w].pe, tx[w].pp, FALSE))
       IN  /\ scores' = IF out \in {"created", "updated", "error_logged"} THEN sc2 ELSE scores
           /\ summary' =
                 IF out \in {"created", "updated"}
                 THEN [summary EXCEPT ![item] =
                          update_score_summary(sc2, [summary EXCEPT ![item] = tx[w].seen],
                                               Len(sc2))[item]]
                 ELSE summary
           /\ last' = [Reply("set_score", 0, IF out = "raised" THEN 1 ELSE 0, 0, NoKey)
                          EXCEPT !.outcome = out, !.sel = {item}, !.fault = dberr]
    /\ tx' = [tx EXCEPT ![w] = Idle]
    /\ UNCHANGED <<now, rec, events, hist, submissions, session>>

\* ------------------------------------------------------------- score reads
\* What a read returns is a set of rows of scores; no score is the empty set.
\* Score.is_hidden()
is_hidden(s) == s.points_possible = 0

\* get_score without the test of is_hidden.
get_score_hidden_shown(item) ==
    IF summary[item] = NoSummary THEN {} ELSE {summary[item].latest}

\* api.get_score(student_item): the latest of the summary unless hidden.
get_score(item) ==
    IF summary[item] = NoSummary THEN {}
    ELSE IF is_hidden(scores[summary[item].latest]) THEN {}
    ELSE {summary[item].latest}

\* api.get_scores(course_id, student_id): the latest of every summary of the
\* student, the hidden ones left out.
get_scores ==
    {summary[i].latest : i \in {j \in Items : /\ summary[j] # NoSummary
                                              /\ ~is_hidden(scores[summary[j].latest])}}

\* api.get_latest_score_for_submission: the newest score of the submission
\* unless hidden; nothing for a submission that is not found.
get_latest_score_for_submission(sub) ==
    LET of == {k \in 1..Len(scores) : scores[k].submission = sub}
    IN  IF ~SubmissionExists(sub) \/ of = {} THEN {}
        ELSE LET k == CHOOSE m \in of : \A j \in of : j <= m
             IN  IF is_hidden(scores[k]) THEN {} ELSE {k}

\* api.get_top_submissions(..., number_of_top_scores): the latest scores with
\* points_earned > 0, by descending points_earned, the first n of them; the
\* rows that a result of n can hold.
get_top_submissions(n) ==
    LET cands == {summary[i].latest :
                     i \in {j \in Items : /\ summary[j] # NoSummary
                                          /\ scores[summary[j].latest].points_earned > 0}}
    IN  {k \in cands :
            Cardinality({j \in cands :
                scores[j].points_earned > scores[k].points_earned}) < n}

\* api.get_all_course_submission_information: for each submission, the latest
\* score of its student item when that score is not hidden and is of that
\* submission.
get_all_course_submission_information ==
    {summary[ItemOf(sub)].latest :
        sub \in {u \in Subs : /\ SubmissionExists(u)
                              /\ summary[ItemOf(u)] # NoSummary
                              /\ ~is_hidden(scores[summary[ItemOf(u)].latest])
                              /\ scores[summary[ItemOf(u)].latest].submission = u}}

\* ------------------------------------------------------------ specification
\* The worker protocol, the clock and the admin action.
Next ==
    \/ Tick
    \/ \E w \in Workers, q \in Queues \cup {""} : GetSubmissionSelect(w, q)
    \/ \E w \in Workers : GetSubmissionCommit(w, FALSE, FALSE)
    \/ \E w \in Workers, body \in PlainBodies, sid \in RecIds \cup {NoSuchSubmission},
          key \in Keys, pe \in PointsReported : PutResultBegin(w, body, sid, key, pe)
    \/ \E w \in Workers : PutResultFinish(w)
    \/ \E sel \in SUBSET RecIds : ResetFailedToPending(sel \cap Recs)

Spec == Init /\ [][Next]_vars

\* Score appends executed one after another.
NextScores ==
    \/ \E sub \in Subs, p \in PointPairs : SetScore(sub, p[1], p[2])
    \/ \E item \in Items : ResetScore(item)
    \/ \E item \in Items : ResetScoreClearState(item)
    \/ \E item \in Items, p \in PointPairs : CreateScore(item, p[1], p[2])

SpecScores == Init /\ [][NextScores]_vars

\* update_status called with every target in every status, and the clock.
NextStatus ==
    \/ Tick
    \/ \E r \in RecIds, target \in TargetStatuses : r \in Recs /\ UpdateStatusCall(r, target)

SpecStatus == Init /\ [][NextStatus]_vars

\* Two records: the second one is created while the queue is being served;
\* the workers claim, and post a score of 1 with the key they were given.
NextQueue ==
    \/ Tick
    \/ \E r \in RecIds, q \in Queues : CreateRecord(r, q)
    \/ \E w \in Workers, q \in Queues : GetSubmissionSelect(w, q)
    \/ \E w \in Workers : GetSubmissionCommit(w, FALSE, FALSE)
    \/ \E w \in Workers, sid \in RecIds :
          sid \in Recs /\ PutResultBegin(w, "ok", sid, rec[sid].pullkey, 1)
    \/ \E w \in Workers : PutResultFinish(w)

SpecQueue == Init /\ [][NextQueue]_vars

\* Two records from the start, moved through their statuses by update_status
\* and by the admin action.
NextAdmin ==
    \/ \E r \in RecIds, target \in Statuses : r \in Recs /\ UpdateStatusCall(r, target)
    \/ \E sel \in SUBSET RecIds : ResetFailedToPending(sel \cap Recs)

SpecAdmin == InitWith(RecIds) /\ [][NextAdmin]_vars

\* set_score calls that overlap, with a database that may fail under the
\* receiver, and resets.
NextRace ==
    \/ \E w \in Workers, sub \in Subs, p \in RacePoints : SetScoreBegin(w, sub, p[1], p[2])
    \/ \E w \in Workers, dberr \in BOOLEAN : SetScoreFinish(w, dberr)
    \/ \E sub \in Subs : ResetScore(ItemOf(sub))

SpecRace == Init /\ [][NextRace]_vars

\* One record, claimed and answered with bodies of every shape, each with
\* the key of the record and a score of 1.
NextReplies ==
    \/ Tick
    \/ \E w \in Workers, q \in Queues : GetSubmissionSelect(w, q)
    \/ \E w \in Workers : GetSubmissionCommit(w, FALSE, FALSE)
    \/ \E w \in Workers, body \in Bodies, sid \in RecIds :
          sid \in Recs /\ PutResultBegin(w, body, sid, rec[sid].pullkey, 1)
    \/ \E w \in Workers : PutResultFinish(w)

SpecReplies == Init /\ [][NextReplies]_vars

\* Records claimed while update_status may reject the transition to pulled.
NextRejected ==
    \/ Tick
    \/ \E r \in RecIds, q \in Queues : CreateRecord(r, q)
    \/ \E w \in Workers, q \in Queues : GetSubmissionSelect(w, q)
    \/ \E w \in Workers, rejected \in BOOLEAN : GetSubmissionCommit(w, rejected, FALSE)

SpecRejected == Init /\ [][NextRejected]_vars

\* Workers that start with no session, log in as a user in the group or
\* outside it, log out, and call every endpoint.
NextAuth ==
    \/ Tick
    \/ \E w \in Workers, cred \in Credentials : Login(w, cred)
    \/ \E w \in Workers : Logout(w)
    \/ \E w \in Workers : Status(w)
    \/ \E w \in Workers, q \in Queues \cup {""} : GetSubmissionSelect(w, q)
    \/ \E w \in Workers : GetSubmissionCommit(w, FALSE, FALSE)
    \/ \E w \in Workers, sid \in RecIds, key \in Keys :
          PutResultBegin(w, "ok", sid, key, 1)
    \/ \E w \in Workers : PutResultFinish(w)

SpecAuth == InitAs({1}, "none") /\ [][NextAuth]_vars

\* A record claimed and answered with a score of 1 and its key, while
\* set_score is called for the other submission of the student item.
NextGrading ==
    \/ \E w \in Workers, q \in Queues : GetSubmissionSelect(w, q)
    \/ \E w \in Workers : GetSubmissionCommit(w, FALSE, FALSE)
    \/ \E w \in Workers, sid \in RecIds :
          sid \in Recs /\ PutResultBegin(w, "ok", sid, rec[sid].pullkey, 1)
    \/ \E w \in Workers : PutResultReceiverRead(w)
    \/ \E w \in Workers : PutResultFinish(w)
    \/ \E w \in Workers, p \in RacePoints : SetScoreBegin(w, 2, p[1], p[2])
    \/ \E w \in Workers : SetScoreFinish(w, FALSE)

SpecGrading == Init /\ [][NextGrading]_vars

\* The queue q1 served for ever by workers that are handed records and post
\* no result: some worker keeps calling get_submission on the queue, and
\* every call that has selected a record is finished.
NextLive ==
    \/ Tick
    \/ \E r \in RecIds : CreateRecord(r, "q1")
    \/ \E w \in Workers : GetSubmissionSelect(w, "q1")
    \/ \E w \in Workers : GetSubmissionCommit(w, FALSE, FALSE)

SpecLive ==
    /\ Init
    /\ [][NextLive]_vars
    /\ WF_vars(\E w \in Workers : GetSubmissionSelect(w, "q1"))
    /\ \A w \in Workers : WF_vars(GetSubmissionCommit(w, FALSE, FALSE))

\* Records claimed while the transition to pulled may be rejected and the
\* payload may fail to serialize; no result is posted.
NextHandout ==
    \/ Tick
    \/ \E r \in RecIds, q \in Queues : CreateRecord(r, q)
    \/ \E w \in Workers, q \in Queues \cup {""} : GetSubmissionSelect(w, q)
    \/ \E w \in Workers, rejected, unserializable \in BOOLEAN :
          GetSubmissionCommit(w, rejected, unserializable)

SpecHandout == Init /\ [][NextHandout]_vars

\* Submissions created one after another, with resets that clear the state.
NextSubmissions ==
    \/ \E item \in Items, at \in SubmittedAts : CreateSubmission(item, at, NoAttempt)
    \/ \E item \in Items : ResetScoreClearState(item)

SpecSubmissions == Init /\ [][NextSubmissions]_vars

\* =================================================================== claims
\* ------------------------------------------------------------- the protocol
\* Worker w holds row r locked.
Holds(w, op, r) == tx[w].op = op /\ tx[w].r = r

\* C1: of two get_submission calls on one queue that overlap when one record
\* of the queue is eligible, one locks the record and is answered with it, and
\* the other is answered that the queue is empty; never do both hold it.
C1_ExclusiveClaim ==
    [][ /\ \A w, v \in Workers :
              w # v /\ tx'[w].op = "get_submission" /\ tx'[v].op = "get_submission"
                  => tx'[w].r # tx'[v].r
        /\ \A w \in Workers :
              (/\ tx[w].op = "get_submission"
               /\ Eligible(rec[tx[w].r].queue_name, now - RECLAIM_TIMEOUT) = {tx[w].r})
              => /\ tx'[w] = Idle
                     => /\ last'.op = "get_submission"
                        /\ last'.code = 200 /\ last'.rc = 0 /\ last'.r = tx[w].r
                 /\ (/\ tx'[w] = tx[w]
                     /\ last'.op = "get_submission"
                     /\ last'.q = rec[tx[w].r].queue_name)
                     => last'.code = 200 /\ last'.rc = 1
      ]_vars

\* C1 witness: a call was answered "empty" while the other call holds the only
\* eligible record of that queue.
C1_Witness ==
    \E w \in Workers :
        /\ tx[w].op = "get_submission"
        /\ \E v \in Workers : v # w /\ tx[v] = Idle
        /\ Eligible(last.q, now - RECLAIM_TIMEOUT) = {tx[w].r}
        /\ last.op = "get_submission" /\ last.code = 200 /\ last.rc = 1

\* The scores the protocol persisted for the submission of record r.
ProtocolScores(r) == {k \in 1..Len(scores) : scores[k].submission = r}

\* C2: whatever the interleaving of put_result calls with the right pullkey,
\* one record's submission has at most one Score and at most one event.
C2_AtMostOneScore ==
    \A r \in Recs : Cardinality(ProtocolScores(r)) <= 1 /\ events[r] <= 1

\* C2 witness: the record was handed out twice (a reclaim), a put_result was
\* scored, and a later put_result with the same pullkey left nothing behind.
C2_Witness ==
    \E r \in Recs :
        /\ Cardinality(ProtocolScores(r)) = 1 /\ events[r] = 1
        /\ rec[r].status = "retired"
        /\ rec[r].status_time > RECLAIM_TIMEOUT
        /\ last.op = "put_result" /\ last.r = r /\ last.key = rec[r].pullkey
        /\ last.outcome = "escaped"

\* C3: a put_result for a record whose row another transaction holds locked
\* gets no lock; it is answered 409, not 404, and nothing is changed.
C3_LockedIs409 ==
    [][ /\ \A w \in Workers :
              tx[w] = Idle /\ tx'[w].op = "put_result" => tx'[w].r \notin LockedRecs
        /\ (last'.op = "put_result" /\ tx' = tx /\ last'.r \in LockedRecs)
              => /\ last'.code = 409 /\ last'.rc = 1
                 /\ UNCHANGED <<rec, scores, summary, events>>
      ]_vars

\* C3 witness: a 409 answer while another worker holds the record.
C3_Witness ==
    /\ last.op = "put_result" /\ last.code = 409
    /\ \E w \in Workers : tx[w].op # "idle" /\ tx[w].r = last.r

\* C4 as stated: a record handed out at T with no result accepted since is
\* not returned before T + RECLAIM_TIMEOUT, and is eligible from that instant.
C4_NotReturnedBeforeTimeout ==
    [][ /\ (/\ last'.op = "get_submission" /\ last'.rc = 0
            /\ hist[last'.r].handed >= 0)
              => now >= hist[last'.r].handed + RECLAIM_TIMEOUT
        /\ \A r \in Recs :
              hist[r].handed >= 0 /\ now >= hist[r].handed + RECLAIM_TIMEOUT
                  => r \in Eligible(rec[r].queue_name, now - RECLAIM_TIMEOUT)
      ]_vars

\* C5 as stated: a put_result whose key differs from the pullkey of its
\* record is always answered 403, and nothing is changed.
C5_WrongKeyAlways403 ==
    [][ (/\ last'.op = "put_result" /\ last'.r \in Recs
         /\ last'.key # rec[last'.r].pullkey)
            => /\ last'.code = 403
               /\ UNCHANGED <<rec, scores, summary, events>>
      ]_vars

\* C5: a put_result whose key differs from the pullkey of its record is
\* answered 403 when it got the row lock and 409 when another transaction
\* holds the row; nothing is changed either way.
C5_WrongKey403Or409 ==
    [][ (/\ last'.op = "put_result" /\ last'.r \in Recs
         /\ last'.key # rec[last'.r].pullkey)
            => /\ UNCHANGED <<rec, scores, summary, events>>
               /\ last'.code = IF \E w \in Workers :
                                      Holds(w, "put_result", last'.r) /\ tx'[w] = Idle
                               THEN 403 ELSE 409
               /\ last'.code = 409 => \E w \in Workers : tx[w].op # "idle" /\ tx[w].r = last'.r
      ]_vars

\* C5 witness: a 403 for a key that is not the pullkey of a pulled record.
C5_Witness ==
    /\ last.op = "put_result" /\ last.code = 403 /\ last.r \in Recs
    /\ rec[last.r].status = "pulled"
    /\ last.key # NoKey /\ last.key # rec[last.r].pullkey

\* C6: the k-th scoring failure in a row on a record, k <= MAX_RETRIES, leaves
\* num_failures = k and the status retry, or failed when k = MAX_RETRIES.
C6_FailureCounting ==
    \A r \in Recs :
        hist[r].failures <= MAX_SCORE_UPDATE_RETRIES
            => /\ rec[r].num_failures = hist[r].failures
               /\ (last.op = "put_result" /\ last.r = r /\ last.outcome = "failure_handled")
                    => rec[r].status = IF hist[r].failures = MAX_SCORE_UPDATE_RETRIES
                                       THEN "failed" ELSE "retry"

\* C6 witness: the fifth failure has just been handled.
C6_Witness ==
    \E r \in Recs :
        /\ hist[r].failures = MAX_SCORE_UPDATE_RETRIES
        /\ last.op = "put_result" /\ last.r = r /\ last.outcome = "failure_handled"
        /\ rec[r].status = "failed" /\ rec[r].num_failures = MAX_SCORE_UPDATE_RETRIES

\* C7 as stated: a put_result that got the row lock and presented the pullkey
\* of the record is answered 200 with return_code 0.
C7_MatchingKeyAlways200 ==
    (/\ last.op = "put_result" /\ last.r \in Recs
     /\ last.outcome \in {"scored", "failure_handled", "escaped"})
        => last.code = 200 /\ last.rc = 0

\* The transitions update_status lets through.
LegalPairs ==
    {<<"pending", "pulled">>, <<"pulled", "retired">>, <<"pulled", "retry">>,
     <<"pulled", "failed">>, <<"retry", "pulled">>, <<"failed", "pending">>}

ScoresOf(i) == {k \in 1..Len(scores) : scores[k].student_item = i}
ResetsOf(i) == {k \in ScoresOf(i) : scores[k].reset}
ShownOf(i) == {k \in ScoresOf(i) : ~scores[k].reset /\ scores[k].points_possible # 0}
Latest(S) == CHOOSE k \in S : \A j \in S : j <= k
Earliest(S) == CHOOSE k \in S : \A j \in S : k <= j
\* The rows of S no other row of S beats by ratio.
BestOf(S) == {k \in S : \A j \in S : ~to_float_greater(scores[j], scores[k])}

\* C9: after every append of a sequence of appends on a student item, the
\* summary's latest is the score appended last.
C9_LatestIsLastAppended ==
    \A i \in Items : ScoresOf(i) # {} => summary[i].latest = Latest(ScoresOf(i))

\* C9 witness: set_score, a reset and a direct creation, one after another
\* on student item 1, the last one being latest without being highest.
C9_Witness ==
    /\ Len(scores) = 3
    /\ \A k \in 1..3 : scores[k].student_item = 1
    /\ \E k \in 1..3 : scores[k].submission # NoSub
    /\ \E k \in 1..3 : scores[k].reset
    /\ \E k \in 1..3 : scores[k].submission = NoSub /\ ~scores[k].reset
    /\ summary[1].latest = 3
    /\ summary[1].highest # 3

\* C10 as stated: highest is a score of the greatest ratio among all the
\* non-reset, non-hidden scores so far, or the most recent reset score when
\* one came after that score.
C10_HighestOverAllScores ==
    \A i \in Items :
        LET best == BestOf(ShownOf(i))
        IN  /\ best # {} =>
                \E m \in best :
                    summary[i].highest =
                        IF \E k \in ResetsOf(i) : k > m THEN Latest(ResetsOf(i)) ELSE m
            /\ best = {} /\ ResetsOf(i) # {} => summary[i].highest = Latest(ResetsOf(i))

\* The scores that count since the most recent reset.
ShownSinceReset(i) ==
    {k \in ShownOf(i) : \A z \in ResetsOf(i) : k > z}

\* C10 amended: highest is the earliest score of the greatest ratio among the
\* non-reset, non-hidden scores appended after the most recent reset; without
\* such a score it is the most recent reset score, or without a reset the
\* first score of the item.
C10_HighestSinceReset ==
    \A i \in Items : ScoresOf(i) # {} =>
        summary[i].highest =
            IF ShownSinceReset(i) # {} THEN Earliest(BestOf(ShownSinceReset(i)))
            ELSE IF ResetsOf(i) # {} THEN Latest(ResetsOf(i))
            ELSE Earliest(ScoresOf(i))

\* C10 witness: a shown score, a reset, then a lower shown score, which is
\* highest although the first one has the greater ratio.
C10_Witness ==
    /\ Len(scores) = 3
    /\ \A k \in 1..3 : scores[k].student_item = 1
    /\ ~scores[1].reset /\ scores[2].reset /\ ~scores[3].reset
    /\ scores[1].points_possible # 0 /\ scores[3].points_possible # 0
    /\ to_float_greater(scores[1], scores[3])
    /\ summary[1].highest = 3

\* C11: a score appended with reset = TRUE is the latest and the highest of
\* its student item, whatever the highest was before and also when the item
\* had no summary.
C11_ResetIsLatestAndHighest ==
    [][ Len(scores') = Len(scores) + 1 /\ scores'[Len(scores')].reset
          => LET idx == Len(scores')
                 i == scores'[idx].student_item
             IN  summary'[i].latest = idx /\ summary'[i].highest = idx
      ]_vars

\* C11 witness: a reset appended after a full-marks score that was highest.
C11_Witness ==
    /\ Len(scores) = 2
    /\ scores[1].student_item = 1 /\ scores[2].student_item = 1
    /\ ~scores[1].reset /\ scores[1].points_possible # 0
    /\ scores[1].points_earned = scores[1].points_possible
    /\ scores[2].reset
    /\ summary[1].latest = 2 /\ summary[1].highest = 2

\* C12 as stated: no learner-facing score read returns a score whose
\* points_possible is 0.
C12_ReadsNeverReturnHidden ==
    \A k \in UNION {get_scores, get_all_course_submission_information,
                    UNION {get_score(i) : i \in Items},
                    UNION {get_latest_score_for_submission(u) : u \in Subs},
                    UNION {get_top_submissions(n) : n \in 1..Cardinality(Items)}} :
        scores[k].points_possible # 0

\* Row e passes the eligibility rule for queue q at time t.
EligibleRow(e, q, t) ==
    /\ e.queue_name = q
    /\ \/ e.status = "pending"
       \/ e.status = "retry"
       \/ e.status = "pulled" /\ e.status_time < t - RECLAIM_TIMEOUT

\* C13: get_submission(q) locks, returns and changes only a record of queue q
\* that is pending, retry, or pulled for more than RECLAIM_TIMEOUT; every
\* other record is left as it is.
C13_OnlyEligibleReturned ==
    [][ /\ \A w \in Workers :
              tx[w] = Idle /\ tx'[w].op = "get_submission"
                  => EligibleRow(rec[tx'[w].r], tx'[w].q, now) /\ rec' = rec
        /\ last'.op = "get_submission"
              => IF last'.rc = 0
                 THEN /\ last'.r \in Recs
                      /\ EligibleRow(rec[last'.r], last'.q, now)
                      /\ \A o \in Recs \ {last'.r} : rec'[o] = rec[o]
                 ELSE rec' = rec
      ]_vars

\* C13 witness: a record pulled more than RECLAIM_TIMEOUT ago was returned.
C13_Witness ==
    /\ last.op = "get_submission" /\ last.rc = 0 /\ last.r \in Recs
    /\ rec[last.r].queue_name = last.q
    /\ rec[last.r].status = "pulled"
    /\ rec[last.r].status_time < now - RECLAIM_TIMEOUT

\* C14: a get_submission(q) that runs while no row is locked takes an eligible
\* record of q than which no eligible record of q has an earlier status_time.
C14_OldestFirst ==
    [][ \A w \in Workers :
          (tx[w] = Idle /\ tx'[w].op = "get_submission" /\ LockedRecs = {})
              => \A o \in Recs :
                    EligibleRow(rec[o], tx'[w].q, now)
                        => rec[tx'[w].r].status_time <= rec[o].status_time
      ]_vars

\* C14 witness: the record taken is strictly older than another eligible
\* record of the queue, and nobody else holds a lock.
C14_Witness ==
    \E w \in Workers :
        /\ tx[w].op = "get_submission"
        /\ \A v \in Workers \ {w} : tx[v] = Idle
        /\ \E o \in Recs \ {tx[w].r} :
              /\ EligibleRow(rec[o], tx[w].q, now)
              /\ rec[tx[w].r].status_time < rec[o].status_time

\* C15: a get_submission is never turned away by the lock of another claim:
\* it is answered "empty" only when the queue has no unlocked eligible record,
\* it takes a row nobody holds, and once it holds a row it returns it.
C15_ClaimsDoNotBlock ==
    [][ /\ (last'.op = "get_submission" /\ last'.code = 200 /\ last'.rc = 1)
              => {o \in Recs : EligibleRow(rec[o], last'.q, now)} \subseteq LockedRecs
        /\ \A w \in Workers :
              /\ tx[w] = Idle /\ tx'[w].op = "get_submission"
                    => tx'[w].r \notin LockedRecs
              /\ tx[w].op = "get_submission" /\ tx'[w] = Idle
                    => last'.code = 200 /\ last'.rc = 0 /\ last'.r = tx[w].r
      ]_vars

\* C15 witness: two claims on one queue in flight, each holding its own record.
C15_Witness ==
    \E w, v \in Workers :
        /\ w # v
        /\ tx[w].op = "get_submission" /\ tx[v].op = "get_submission"
        /\ tx[w].q = tx[v].q /\ tx[w].r # tx[v].r

\* C16: a get_submission that hands out a record that is pulled already
\* returns the pullkey the record has, leaves that pullkey and the status
\* pulled, and a put_result that presents the pullkey of its record is not
\* turned away by the key check.
C16_ReclaimKeepsPullkey ==
    [][ \A w \in Workers :
          /\ (/\ tx[w].op = "get_submission" /\ tx'[w] = Idle
              /\ rec[tx[w].r].status = "pulled")
                => /\ last'.rc = 0 /\ last'.key = rec[tx[w].r].pullkey
                   /\ rec'[tx[w].r].pullkey = rec[tx[w].r].pullkey
                   /\ rec'[tx[w].r].status = "pulled"
          /\ (/\ tx[w].op = "put_result" /\ tx'[w] = Idle
              /\ hist[tx[w].r].reclaimed
              /\ rec[tx[w].r].pullkey # NoKey
              /\ tx[w].key = rec[tx[w].r].pullkey)
                => last'.code # 403
      ]_vars

\* C16 witness: after a reclaim, a result posted with the key of the first
\* hand-out was scored.
C16_Witness ==
    /\ last.op = "put_result" /\ last.r \in Recs /\ last.outcome = "scored"
    /\ hist[last.r].reclaimed
    /\ last.key = NewPullKey(last.r)

\* C17: a put_result with the pullkey of a pulled record and a score that
\* set_score accepts appends one Score of the record's submission, with the
\* points reported over the points_possible of the record, stores the reply
\* in grader_reply, retires the record and is answered 200, return_code 0.
C17_SuccessPath ==
    [][ \A w \in Workers :
          (/\ tx[w].op = "put_result" /\ tx'[w] = Idle
           /\ rec[tx[w].r].status = "pulled"
           /\ rec[tx[w].r].pullkey # NoKey /\ tx[w].key = rec[tx[w].r].pullkey
           /\ score_is_valid(tx[w].pe, rec[tx[w].r].points_possible))
            => LET r == tx[w].r
               IN  /\ scores' = Append(scores,
                          [student_item |-> ItemOf(r), submission |-> r,
                           points_earned |-> tx[w].pe,
                           points_possible |-> rec[r].points_possible,
                           reset |-> FALSE])
                   /\ rec'[r].grader_reply = <<tx[w].pe>>
                   /\ rec'[r].status = "retired"
                   /\ events'[r] = events[r] + 1
                   /\ last'.code = 200 /\ last'.rc = 0
      ]_vars

\* C17 witness: the first result for a record was scored and retired it.
C17_Witness ==
    /\ last.op = "put_result" /\ last.r \in Recs /\ last.outcome = "scored"
    /\ last.code = 200 /\ last.rc = 0
    /\ Len(scores) = 1 /\ scores[1].submission = last.r /\ scores[1].points_earned = 1
    /\ rec[last.r].status = "retired" /\ rec[last.r].grader_reply = <<1>>
    /\ summary[ItemOf(last.r)].latest = 1

\* C18: a transition into retry or failed adds one to num_failures, any other
\* transition leaves num_failures as it was, and every transition stamps
\* status_time with the current time; status_time never decreases.
C18_CountAndStamp ==
    [][ \A r \in Recs :
          /\ rec'[r].status_time >= rec[r].status_time
          /\ IF rec'[r].status # rec[r].status
             THEN /\ rec'[r].status_time = now
                  /\ rec'[r].num_failures =
                        IF rec'[r].status \in {"retry", "failed"}
                        THEN rec[r].num_failures + 1 ELSE rec[r].num_failures
             ELSE /\ rec'[r].num_failures = rec[r].num_failures
                  /\ rec'[r].status_time = rec[r].status_time
      ]_vars

\* C18 witness: pulled -> failed was called later than the pull on a record
\* that had failed before; it counted one more failure and stamped the time.
C18_Witness ==
    /\ last.op = "update_status" /\ last.rc = 0 /\ last.outcome = "failed"
    /\ rec[last.r].status = "failed"
    /\ rec[last.r].num_failures = 2
    /\ rec[last.r].status_time = now /\ now > 1

\* C19: a retired record keeps its status whatever is called; a failed record
\* keeps its status under get_submission and put_result, and leaves it only
\* for pending, by the administrative reset.
C19_TerminalStatuses ==
    [][ \A r \in Recs :
          /\ rec[r].status = "retired" => rec'[r].status = "retired"
          /\ (rec[r].status = "failed" /\ rec'[r].status # "failed")
                => /\ rec'[r].status = "pending"
                   /\ last'.op = "reset_failed_to_pending" /\ r \in last'.sel
                   /\ tx' = tx
      ]_vars

\* C19 witness: a put_result with the pullkey of a failed record was posted
\* and the record is failed as before.
C19_Witness ==
    /\ last.op = "put_result" /\ last.r \in Recs
    /\ last.key # NoKey /\ last.key = rec[last.r].pullkey
    /\ last.code \notin {403, 409}
    /\ rec[last.r].status = "failed"
    /\ hist[last.r].failures = rec[last.r].num_failures
    /\ last.outcome # "failure_handled"

\* C20: reset_failed_to_pending moves every selected record that is failed to
\* pending and leaves every other record, selected or not, as it is.
C20_AdminResetFrame ==
    [][ last'.op = "reset_failed_to_pending"
          => \A r \in Recs :
                IF r \in last'.sel /\ rec[r].status = "failed"
                THEN rec'[r].status = "pending"
                ELSE rec'[r] = rec[r]
      ]_vars

\* C20 witness: both records were selected; the failed one is pending now and
\* the retired one is as it was.
C20_Witness ==
    /\ last.op = "reset_failed_to_pending" /\ last.sel = {1, 2}
    /\ rec[1].status = "pending" /\ rec[1].num_failures > 0
    /\ rec[2].status = "retired"

\* C21: a first score whose receiver found no summary, and which finds at
\* creation that another first score has created one, is passed over: the
\* call returns without error and the summary is the one that was there; the
\* latest and highest of every summary are persisted scores of its item.
C21_FirstScoreRace ==
    [][ /\ \A w \in Workers :
              (/\ tx[w].op = "set_score" /\ tx'[w] = Idle
               /\ tx[w].seen = NoSummary
               /\ summary[ItemOf(tx[w].sub)] # NoSummary
               /\ ~last'.fault)
                => /\ last'.op = "set_score" /\ last'.rc = 0
                   /\ summary' = summary
        /\ \A i \in Items :
              summary'[i] # NoSummary
                  => /\ summary'[i].latest \in 1..Len(scores')
                     /\ summary'[i].highest \in 1..Len(scores')
                     /\ scores'[summary'[i].latest].student_item = i
                     /\ scores'[summary'[i].highest].student_item = i
      ]_vars

\* C21 witness: of two first scores in flight together, the second one was
\* passed over and the summary points to the score of the first.
C21_Witness ==
    /\ last.op = "set_score" /\ last.outcome = "swallowed" /\ last.rc = 0
    /\ Len(scores) = 1
    /\ summary[1] = [highest |-> 1, latest |-> 1]
    /\ \A w \in Workers : tx[w] = Idle

\* C22 as stated: a set_score under which the database fails while the
\* summary is looked up or saved raises to its caller and persists neither
\* the Score nor a summary change; and, the first-score race apart, a Score
\* that is persisted is the latest of its summary.
C22_StorageErrorPropagates ==
    [][ last'.op = "set_score"
          => /\ last'.fault
                  => last'.rc = 1 /\ scores' = scores /\ summary' = summary
             /\ Len(scores') > Len(scores)
                  => \A i \in last'.sel : summary'[i].latest = Len(scores')
      ]_vars

\* C23 as stated: the N-th submission created for a student item has
\* attempt_number N.
C23_AttemptIsOrdinal ==
    \A k \in 1..Len(submissions) :
        submissions[k].attempt_number =
            Cardinality({j \in 1..k :
                submissions[j].student_item = submissions[k].student_item})

\* The score a step appended to an item that had a summary, and the score
\* that was highest before.
Appended == Len(scores') = Len(scores) + 1 /\ summary[scores'[Len(scores')].student_item] # NoSummary
NewOne == scores'[Len(scores')]
OldHigh == scores[summary[NewOne.student_item].highest]

\* C24: when the highest has points_possible 0, a reset or a hidden score,
\* an appended non-reset score with points_possible > 0 becomes highest,
\* also with points_earned 0.
C24_DefinedBeatsUndefined ==
    [][ (/\ Appended
         /\ OldHigh.points_possible = 0
         /\ ~NewOne.reset /\ NewOne.points_possible > 0)
            => summary'[NewOne.student_item].highest = Len(scores')
      ]_vars

\* C24 witness: a 0/2 score took over from a hidden score that is no reset.
C24_Witness ==
    /\ Len(scores) = 2
    /\ scores[1].student_item = 1 /\ scores[2].student_item = 1
    /\ ~scores[1].reset /\ scores[1].points_possible = 0
    /\ ~scores[2].reset /\ scores[2].points_earned = 0 /\ scores[2].points_possible = 2
    /\ summary[1].highest = 2

\* C25: when the highest and an appended non-reset score both have
\* points_possible > 0, the new score becomes highest exactly when its ratio
\* is strictly greater; otherwise the highest stays.
C25_StrictlyGreaterRatio ==
    [][ (/\ Appended
         /\ OldHigh.points_possible > 0
         /\ ~NewOne.reset /\ NewOne.points_possible > 0)
            => summary'[NewOne.student_item].highest =
                  IF NewOne.points_earned * OldHigh.points_possible
                        > OldHigh.points_earned * NewOne.points_possible
                  THEN Len(scores')
                  ELSE summary[NewOne.student_item].highest
      ]_vars

\* C25 witness: a 2/2 score after a 1/1 score, more points at the same
\* ratio; the 1/1 score is still highest.
C25_Witness ==
    /\ Len(scores) = 2
    /\ scores[1].student_item = 1 /\ scores[2].student_item = 1
    /\ ~scores[1].reset /\ scores[1].points_earned = 1 /\ scores[1].points_possible = 1
    /\ ~scores[2].reset /\ scores[2].points_earned = 2 /\ scores[2].points_possible = 2
    /\ summary[1].highest = 1 /\ summary[1].latest = 2

\* The step is a reset_score; the step is a set_score on an item whose latest
\* score is a reset score.
ResetStep == Len(scores') = Len(scores) + 1 /\ NewOne.reset
SetScoreAfterReset ==
    /\ Appended /\ ~NewOne.reset /\ NewOne.submission # NoSub
    /\ scores[summary[NewOne.student_item].latest].reset
\* What reset_score leaves alone: the Score rows, and the score read for each
\* submission there is after it.
ResetFrame ==
    /\ SubSeq(scores', 1, Len(scores)) = scores
    /\ \A u \in Subs :
          SubmissionExists(u)'
              => get_latest_score_for_submission(u)' = get_latest_score_for_submission(u)
\* While the latest score of an item is a reset score, the reads by item
\* return nothing for it.
NothingWhileReset ==
    \A i \in Items :
        (summary[i] # NoSummary /\ scores[summary[i].latest].reset)
            => get_score(i) = {} /\ summary[i].latest \notin get_scores

\* C26 as stated: after reset_score the reads by item return no score for
\* the item, the next set_score becomes the score returned, and the reset
\* changes neither the Score rows nor the score read for a submission.
C26_SetScoreAfterResetReturned ==
    [][ /\ NothingWhileReset'
        /\ ResetStep => ResetFrame
        /\ \A i \in Items :
              (SetScoreAfterReset /\ NewOne.student_item = i)
                  => /\ get_score(i)' = {Len(scores')}
                     /\ Len(scores') \in get_scores'
      ]_vars

\* C26: as stated, except that the next set_score becomes the score returned
\* when its points_possible is greater than 0, and is hidden like the reset
\* when its points_possible is 0.
C26_ShownSetScoreAfterResetReturned ==
    [][ /\ NothingWhileReset'
        /\ ResetStep => ResetFrame
        /\ \A i \in Items :
              (SetScoreAfterReset /\ NewOne.student_item = i)
                  => IF NewOne.points_possible > 0
                     THEN /\ get_score(i)' = {Len(scores')}
                          /\ Len(scores') \in get_scores'
                     ELSE /\ get_score(i)' = {}
                          /\ Len(scores') \notin get_scores'
      ]_vars

\* C26 witness: a score, a reset, and a set_score of 1/2 that is returned by
\* get_score; the first score is still read for its submission.
C26_Witness ==
    /\ Len(scores) = 3
    /\ scores[1].submission = 1 /\ ~is_hidden(scores[1])
    /\ scores[2].reset /\ scores[2].student_item = 1
    /\ scores[3].submission = 2 /\ scores[3].points_earned = 1 /\ scores[3].points_possible = 2
    /\ get_score(1) = {3}
    /\ get_latest_score_for_submission(1) = {1}

\* C27: a get_submission on a queue none of whose records is eligible is
\* answered 200 with return_code 1 and changes nothing, and it is answered so
\* only when the queue has no eligible record that is free; a get_submission
\* that selected a pending record returns it and leaves it pulled.
C27_EmptyThenInserted ==
    [][ \A q \in Queues :
          LET free == {o \in Recs : EligibleRow(rec[o], q, now) /\ o \notin LockedRecs}
          IN  /\ (last'.op = "get_submission" /\ last'.q = q /\ tx' = tx)
                    => /\ free = {}
                       /\ last'.code = 200 /\ last'.rc = 1
                       /\ UNCHANGED <<rec, scores, summary, events>>
              /\ \A w \in Workers :
                    /\ (tx[w] = Idle /\ tx'[w].op = "get_submission" /\ tx'[w].q = q)
                          => tx'[w].r \in free
                    /\ (tx[w].op = "get_submission" /\ tx[w].q = q /\ tx'[w] = Idle
                          /\ rec[tx[w].r].status = "pending")
                          => /\ last'.code = 200 /\ last'.rc = 0 /\ last'.r = tx[w].r
                             /\ rec'[tx[w].r].status = "pulled"
                             /\ last'.key = rec'[tx[w].r].pullkey
      ]_vars

\* C27 witness: a record inserted right after its queue was answered "Queue
\* is empty" was returned by a get_submission on that queue and is pulled.
C27_Witness ==
    /\ last.op = "get_submission" /\ last.code = 200 /\ last.rc = 0
    /\ last.r \in Recs
    /\ hist[last.r].after_empty
    /\ rec[last.r].queue_name = last.q
    /\ rec[last.r].status = "pulled"
    /\ hist[last.r].handed = rec[last.r].status_time

\* The bodies the format check is to turn away.
Malformed == Bodies \ {"ok"}

\* C28: a put_result with a malformed body is answered 400 and changes no
\* record, score or summary.
C28_MalformedIs400 ==
    [][ (last'.op = "put_result" /\ last'.body \in Malformed)
            => /\ last'.code = 400 /\ last'.rc = 1
               /\ UNCHANGED <<rec, scores, summary>>
      ]_vars

\* C29: in every reachable state, whatever claims, result posts and
\* administrative resets of failed records have happened, the num_failures of
\* every record is between 0 and MAX_SCORE_UPDATE_RETRIES.
C29_FailuresBounded ==
    \A r \in Recs : rec[r].num_failures \in 0..MAX_SCORE_UPDATE_RETRIES

\* C30: a get_submission whose transition to pulled is rejected as illegal is
\* answered with status 400, and the record it selected is left as it was.
C30_RejectedClaimIs400 ==
    [][ \A w \in Workers :
          (/\ tx[w].op = "get_submission" /\ tx'[w] = Idle
           /\ last'.op = "get_submission" /\ last'.outcome = "transition_rejected")
              => /\ last'.code = 400
                 /\ rec'[tx[w].r] = rec[tx[w].r]
      ]_vars

\* The endpoints other than login.
Protected == {"get_submission", "put_result", "logout", "status"}

\* C31: a request to get_submission, put_result, logout or status from a
\* worker whose session is not of a user in the group xqueue (no session, or
\* a user outside the group) is answered 403 and changes no record, score,
\* summary, lock or session; such a worker starts no request on a record;
\* login is never answered 403.
C31_OnlyXQueueSessions ==
    [][ /\ \A w \in Workers :
              session[w] # "member"
                  => /\ tx'[w] = tx[w]
                     /\ session'[w] # session[w] => last'.op = "login" /\ last'.w = w
        /\ (last'.op \in Protected /\ last'.w \in Workers /\ session[last'.w] # "member")
              => /\ last'.code = 403
                 /\ UNCHANGED <<rec, scores, summary, events, tx, session>>
        /\ last'.op = "login" => last'.code \in {200, 400, 401}
      ]_vars

\* C31 witness: a logged-in user outside the group posted a result for a
\* pulled record, with the key of the record, and was answered 403.
C31_Witness ==
    /\ last.op = "put_result" /\ last.code = 403 /\ last.outcome = "permission_denied"
    /\ session[last.w] = "outsider"
    /\ \E r \in Recs : rec[r].status = "pulled" /\ rec[r].pullkey # NoKey

\* C32: appending a non-reset score with points_possible 0 while the highest
\* has points_possible > 0 leaves highest as it was and makes the new score
\* latest.
C32_HiddenKeepsHighest ==
    [][ (/\ Appended
         /\ ~NewOne.reset /\ NewOne.points_possible = 0
         /\ OldHigh.points_possible > 0)
            => /\ summary'[NewOne.student_item].highest = summary[NewOne.student_item].highest
               /\ summary'[NewOne.student_item].latest = Len(scores')
               /\ is_hidden(scores'[summary'[NewOne.student_item].latest])
      ]_vars

\* C32 witness: 1/2 is highest, and a later non-reset 0/0 is latest.
C32_Witness ==
    /\ Len(scores) >= 2
    /\ summary[1] = [highest |-> 1, latest |-> Len(scores)]
    /\ scores[1].points_earned = 1 /\ scores[1].points_possible = 2
    /\ ~scores[Len(scores)].reset
    /\ scores[Len(scores)].submission # NoSub
    /\ scores[Len(scores)].points_possible = 0

\* C33: a set_score on an item that has a summary, finishing after another
\* set_score on the item committed since its receiver read the summary,
\* leaves the summary the sequential rules give from the committed summary
\* and the new score: latest is the new score, and the highest the other
\* writer committed is kept unless the new score beats it.
C33_NoLostSummaryUpdate ==
    [][ \A w \in Workers :
          (/\ tx[w].op = "set_score" /\ tx'[w] = Idle
           /\ tx[w].seen # NoSummary
           /\ Len(scores') = Len(scores) + 1
           /\ ~last'.fault)
              => summary'[ItemOf(tx[w].sub)]
                     = update_score_summary(scores', summary, Len(scores'))[ItemOf(tx[w].sub)]
      ]_vars

\* C34: the highest of a summary is never a score appended before the most
\* recent reset score of its student item: it is that reset score or a score
\* appended after it.
C34_HighestNotBeforeReset ==
    \A i \in Items :
        (summary[i] # NoSummary /\ ResetsOf(i) # {})
            => summary[i].highest >= Latest(ResetsOf(i))

\* C35: whenever a record is retired, a Score is persisted for its submission
\* with the points_earned of the accepted result and the points_possible of
\* the record.
C35_RetiredHasScore ==
    \A r \in Recs :
        rec[r].status = "retired"
            => \E k \in 1..Len(scores) :
                  /\ scores[k].submission = r
                  /\ <<scores[k].points_earned>> = rec[r].grader_reply
                  /\ scores[k].points_possible = rec[r].points_possible

\* C36: while workers keep calling get_submission on a queue, every record
\* of the queue that is pending or retry is eventually returned by a call.
C36_EveryRecordReturned ==
    \A r \in RecIds :
        (r \in Recs /\ rec[r].status \in {"pending", "retry"})
            ~> (last.op = "get_submission" /\ last.rc = 0 /\ last.r = r)

C38_NoHandoutNoChange ==
    [][ /\ (last'.op = "get_submission" /\ last'.rc # 0)
              => \A r \in Recs :
                    /\ rec'[r].status = rec[r].status
                    /\ rec'[r].status_time = rec[r].status_time
                    /\ rec'[r].pullkey = rec[r].pullkey
                    /\ rec'[r].num_failures = rec[r].num_failures
        /\ \A r \in Recs :
              (r \in DOMAIN rec' /\ rec'[r].status = "pulled") => hist'[r].handed >= 0
      ]_vars

====
